---- MODULE Spec2Model ----
(***************************************************************************)
(* Model of main.py: the playlist transcript extractor.                    *)
(*                                                                         *)
(* Strings are sequences of one-character strings, so that replace, strip  *)
(* and slicing are computed character by character as Python does.         *)
(***************************************************************************)
EXTENDS Integers, Sequences, FiniteSets, TLC

\* ------------------------------------------------------------------------
\* Bounds of the model
\* ------------------------------------------------------------------------

\* Longest short title enumerated character by character (SpecNamer).
MaxTitleLen == 2

\* Longest affix put before/after the padding of a long title (SpecNamer).
MaxAffixLen == 2

\* Longest raw entry list the playlist provider returns (Spec).
MaxEntries == 3

\* Largest batch size the configuration is drawn from (Spec).
MaxBatchSize == 2

\* ------------------------------------------------------------------------
\* Configuration (main.py, lines 24-36)
\* ------------------------------------------------------------------------

OUTPUT_DIR == <<"t", "r", "a", "n", "s", "c", "r", "i", "p", "t", "s">>

MIN_DELAY_SECONDS == 5

MAX_DELAY_SECONDS == 20

BATCH_REST_SECONDS == 5 * 60

\* ------------------------------------------------------------------------
\* Python string helpers
\* ------------------------------------------------------------------------

\* str.replace(ch, rep) for one-character ch: every occurrence is replaced.
StrReplace(s, ch, rep) ==
    [i \in 1..Len(s) |-> IF s[i] = ch THEN rep ELSE s[i]]

\* The characters str.strip() removes (those of them the model's alphabet has).
Whitespace == {" ", "\t", "\n"}

RECURSIVE LStrip(_)
LStrip(s) ==
    IF s # <<>> /\ Head(s) \in Whitespace THEN LStrip(Tail(s)) ELSE s

RECURSIVE RStrip(_)
RStrip(s) ==
    IF s # <<>> /\ s[Len(s)] \in Whitespace
    THEN RStrip(SubSeq(s, 1, Len(s) - 1))
    ELSE s

\* str.strip()
Strip(s) == RStrip(LStrip(s))

\* s[:n]
SliceTo(s, n) == IF Len(s) > n THEN SubSeq(s, 1, n) ELSE s

\* ------------------------------------------------------------------------
\* sanitize_filename (lines 113-121)
\* ------------------------------------------------------------------------

\* invalid_chars = '<>:"/\\|?*'
invalid_chars == <<"<", ">", ":", "\"", "/", "\\", "|", "?", "*">>

\* the slice bound of name.strip()[:150]
NameLimit == 150

untitled == <<"u", "n", "t", "i", "t", "l", "e", "d">>

\* for ch in invalid_chars: name = name.replace(ch, "_"), from the k-th on
RECURSIVE ReplaceInvalid(_, _)
ReplaceInvalid(name, k) ==
    IF k > Len(invalid_chars)
    THEN name
    ELSE ReplaceInvalid(StrReplace(name, invalid_chars[k], "_"), k + 1)

sanitize_filename_TruncateFirst(name) ==
    LET cut == Strip(SliceTo(ReplaceInvalid(name, 1), NameLimit))
    IN  IF cut = <<>> THEN untitled ELSE cut

sanitize_filename(name) ==
    LET cut == SliceTo(Strip(ReplaceInvalid(name, 1)), NameLimit)
    IN  IF cut = <<>> THEN untitled ELSE cut

\* ------------------------------------------------------------------------
\* build_transcript_filepath (lines 124-138)
\* ------------------------------------------------------------------------

\* dict.get(key, default)
DictGet(d, key, default) == IF key \in DOMAIN d THEN d[key] ELSE default

\* os.path.join(a, b) on POSIX
PathJoin(a, b) ==
    IF b # <<>> /\ Head(b) = "/" THEN b
    ELSE IF a = <<>> \/ a[Len(a)] = "/" THEN a \o b
    ELSE a \o <<"/">> \o b

Separator == <<"_", "_">>

Extension == <<".", "j", "s", "o", "n">>

build_transcript_filepath_NoId(video, output_dir) ==
    LET safe_title == sanitize_filename(DictGet(video, "title", <<>>))
    IN  PathJoin(output_dir, safe_title \o Extension)

build_transcript_filepath(video, output_dir) ==
    LET video_id   == DictGet(video, "id", <<>>)
        title      == DictGet(video, "title", <<>>)
        safe_title == sanitize_filename(title)
        filename   == safe_title \o Separator \o video_id \o Extension
    IN  PathJoin(output_dir, filename)

\* ------------------------------------------------------------------------
\* State
\* ------------------------------------------------------------------------

VARIABLES
    nVideo,         \* SpecNamer: the video dict passed to build_transcript_filepath
    nDir,           \* SpecNamer: the output_dir argument
    nPath,          \* SpecNamer: the returned path
    nCalls,         \* SpecNamer: calls made with these arguments
    nDirMade,       \* SpecNamer: os.makedirs(output_dir) has run
    info,           \* what ydl.extract_info answers for PLAYLIST_URL
    BATCH_SIZE,     \* the configured batch size (line 31)
    pc,             \* position of main()
    videos,         \* main: videos
    total,          \* main: total
    index,          \* main: index (0 before the loop)
    existing_path,  \* main: existing_path
    segments,       \* main: segments, [none |-> TRUE] for None, else [list |-> ...]
    fs,             \* the files of the output directory: path -> contents
    dirMade,        \* OUTPUT_DIR has been created
    sleeping,       \* seconds of the time.sleep in progress, 0 when running
    lastLog,        \* the line printed last
    exc,            \* the exception that left main(), "" when none
    fs0,            \* history: fs when the run started
    snap,           \* history: per item, fs when os.path.exists was evaluated
    outcome,        \* history: per item, PENDING / SKIPPED / EMPTY / SAVED
    trace           \* history: the calls made, in order

nvars == <<nVideo, nDir, nPath, nCalls, nDirMade>>

dvars == <<info, BATCH_SIZE, pc, videos, total, index, existing_path, segments,
           fs, dirMade, sleeping, lastLog, exc, fs0, snap, outcome, trace>>

vars == <<nvars, dvars>>

\* The driver's variables while only the path derivation is exercised.
DriverIdle ==
    /\ info = [error |-> "DownloadError"]
    /\ BATCH_SIZE = 1
    /\ pc = "idle"
    /\ videos = <<>>
    /\ total = 0
    /\ index = 0
    /\ existing_path = <<>>
    /\ segments = [none |-> TRUE]
    /\ fs = <<>>
    /\ dirMade = FALSE
    /\ sleeping = 0
    /\ lastLog = ""
    /\ exc = ""
    /\ fs0 = <<>>
    /\ snap = <<>>
    /\ outcome = <<>>
    /\ trace = <<>>

\* The path derivation's variables while the driver runs.
NamerIdle ==
    /\ nVideo = [id |-> <<>>]
    /\ nDir = <<>>
    /\ nPath = <<>>
    /\ nCalls = 0
    /\ nDirMade = FALSE

\* ------------------------------------------------------------------------
\* SpecNamer: build_transcript_filepath applied to bounded inputs
\* ------------------------------------------------------------------------

\* All sequences over chars of length at most n.
RECURSIVE SeqsUpTo(_, _)
SeqsUpTo(chars, n) ==
    IF n = 0
    THEN {<<>>}
    ELSE LET shorter == SeqsUpTo(chars, n - 1)
         IN  shorter \cup {Append(s, c) : s \in shorter, c \in chars}

\* n copies of "a"
Pad(n) == [i \in 1..n |-> "a"]

TitleChars == {"<", ">", ":", "\"", "/", "\\", "|", "?", "*", "a", "_", " "}

AffixChars == {"a", "\t", "/"}

IdChars == {"b", "_"}

ShortTitles == SeqsUpTo(TitleChars, MaxTitleLen)

\* Titles around the slice bound: NameLimit - 1 letters between two affixes.
LongTitles ==
    {pre \o Pad(NameLimit - 1) \o post :
        pre \in SeqsUpTo(AffixChars, MaxAffixLen),
        post \in SeqsUpTo(AffixChars, MaxAffixLen)}

Ids == SeqsUpTo(IdChars, MaxTitleLen)

\* Dicts with both keys (every identifier with the short titles, one with the
\* long ones), and dicts lacking one (the .get defaults apply).
NamerVideos ==
    {[id |-> i, title |-> t] : i \in Ids, t \in ShortTitles}
        \cup {[id |-> <<"b">>, title |-> t] : t \in LongTitles}
        \cup {[id |-> i] : i \in Ids \ {<<>>}}
        \cup {[title |-> t] : t \in ShortTitles}

OutputDirs == {OUTPUT_DIR, <<"o", "/">>, <<>>}

NamerInit ==
    /\ DriverIdle
    /\ nVideo \in NamerVideos
    /\ nDir \in OutputDirs
    /\ nPath = <<>>
    /\ nCalls = 0
    /\ nDirMade = FALSE

\* One call build_transcript_filepath(nVideo, output_dir=nDir); the second
\* call with the same arguments is the one save_transcript makes (line 149).
BuildPath ==
    /\ nCalls < 2
    /\ nDirMade' = TRUE
    /\ nPath' = build_transcript_filepath(nVideo, nDir)
    /\ nCalls' = nCalls + 1
    /\ UNCHANGED <<nVideo, nDir>>
    /\ UNCHANGED dvars

NamerNext == BuildPath

SpecNamer == NamerInit /\ [][NamerNext]_vars

\* ------------------------------------------------------------------------
\* get_videos_from_playlist (lines 43-75)
\* ------------------------------------------------------------------------

\* Python truthiness of a str / dict / list modelled as a function.
Truthy(x) == DOMAIN x # {}

\* for entry in info["entries"]: ... (lines 61-67); None is the empty dict
RECURSIVE CollectEntries(_)
CollectEntries(entries) ==
    IF entries = <<>>
    THEN <<>>
    ELSE LET entry    == Head(entries)
             rest     == CollectEntries(Tail(entries))
             video_id == DictGet(entry, "id", <<>>)
             title    == DictGet(entry, "title", <<>>)
         IN  IF ~Truthy(entry) THEN rest
             ELSE IF Truthy(video_id)
                  THEN <<[id |-> video_id, title |-> title]>> \o rest
                  ELSE rest

get_videos_from_playlist(playlist_info) ==
    IF "entries" \in DOMAIN playlist_info
    THEN CollectEntries(playlist_info.entries)
    ELSE LET video_id == DictGet(playlist_info, "id", <<>>)
             title    == DictGet(playlist_info, "title", <<>>)
         IN  IF Truthy(video_id)
             THEN <<[id |-> video_id, title |-> title]>>
             ELSE <<>>

\* ------------------------------------------------------------------------
\* The provider's answers and the output directory the run starts from
\* ------------------------------------------------------------------------

\* Raw playlist entries: None, an entry without id, two videos whose paths
\* coincide ("a_" + "__" + "b" and "a" + "__" + "_b"), a video without title.
RawEntries ==
    { << >>,
      [title |-> <<"a">>],
      [id |-> <<"b">>, title |-> <<"a", "_">>],
      [id |-> <<"_", "b">>, title |-> <<"a">>],
      [id |-> <<"b">>] }

\* extract_info raises for a reference it cannot resolve.
Unresolvable == [error |-> "DownloadError"]

Infos ==
    {Unresolvable}
        \cup {[entries |-> es] : es \in SeqsUpTo(RawEntries, MaxEntries)}
        \cup (RawEntries \ {<< >>})

\* Every path a run over these entries can derive.
AllPaths ==
    {build_transcript_filepath(e, OUTPUT_DIR) :
        e \in {r \in RawEntries : "id" \in DOMAIN r}}

\* What an earlier run left in a file.
PreContent == [video_id |-> <<>>, title |-> <<>>, segments |-> <<"earlier run">>]

\* What a write that failed half way leaves.
Truncated == [truncated |-> TRUE]

\* The transcript the provider has for a video (to_raw_data()).
RawData == <<[text |-> "hi", start |-> 0, duration |-> 1]>>

None == [none |-> TRUE]

List(l) == [list |-> l]

\* `not segments`
NotSegments_OnlyNone(s) == "none" \in DOMAIN s

NotSegments(s) == IF "none" \in DOMAIN s THEN TRUE ELSE s.list = <<>>

\* random.uniform(a, b), sampled at both ends and in the middle
Uniform(a, b) == {a, (a + b) \div 2, b}

Event(op, i) == [op |-> op, i |-> i]

Log(op) == Append(trace, Event(op, index))

SetOutcome(o) == [outcome EXCEPT ![index] = o]

\* ------------------------------------------------------------------------
\* main (lines 167-220)
\* ------------------------------------------------------------------------

\* PLAYLIST_URL (line 21) holds no placeholder, so lines 168-170 do not
\* return. BATCH_SIZE is 100 in the source; it is drawn from 1..MaxBatchSize
\* so that batch boundaries fall inside a bounded run. The output directory
\* holds what an earlier run left.
Init ==
    /\ NamerIdle
    /\ info \in Infos
    /\ BATCH_SIZE \in 1..MaxBatchSize
    /\ pc = "start"
    /\ videos = <<>>
    /\ total = 0
    /\ index = 0
    /\ existing_path = <<>>
    /\ segments = None
    /\ fs \in {[p \in ps |-> PreContent] : ps \in SUBSET AllPaths}
    /\ dirMade = (DOMAIN fs # {})
    /\ sleeping = 0
    /\ lastLog = ""
    /\ exc = ""
    /\ fs0 = fs
    /\ snap = <<>>
    /\ outcome = <<>>
    /\ trace = <<>>

EnumerateFails_Swallow ==
    /\ pc = "start"
    /\ info = Unresolvable
    /\ pc' = "returned"
    /\ dirMade' = TRUE
    /\ lastLog' = "Found video(s) in playlist."
    /\ trace' = Append(trace, Event("enumerate", 0))
    /\ UNCHANGED <<nvars, info, BATCH_SIZE, videos, total, index, existing_path,
                   segments, fs, sleeping, exc, fs0, snap, outcome>>

\* lines 172-173 when extract_info (line 55) raises: nothing catches it.
EnumerateFails ==
    /\ pc = "start"
    /\ info = Unresolvable
    /\ pc' = "crashed"
    /\ exc' = info.error
    /\ lastLog' = "Fetching playlist information..."
    /\ trace' = Append(trace, Event("enumerate", 0))
    /\ UNCHANGED <<nvars, info, BATCH_SIZE, videos, total, index, existing_path,
                   segments, fs, dirMade, sleeping, fs0, snap, outcome>>

\* lines 172-180 when extract_info answers.
EnumerateReturns ==
    /\ pc = "start"
    /\ info # Unresolvable
    /\ LET vs == get_videos_from_playlist(info)
       IN  /\ videos' = vs
           /\ total' = Len(vs)
           /\ outcome' = [i \in 1..Len(vs) |-> "PENDING"]
           /\ pc' = IF Len(vs) = 0 THEN "returned" ELSE "loop"
           /\ dirMade' = IF Len(vs) = 0 THEN dirMade ELSE TRUE
    /\ lastLog' = "Found video(s) in playlist."
    /\ trace' = Append(trace, Event("enumerate", 0))
    /\ UNCHANGED <<nvars, info, BATCH_SIZE, index, existing_path, segments, fs,
                   sleeping, exc, fs0, snap>>

\* line 182: the next video, and lines 183-188.
LoopNext ==
    /\ pc = "loop"
    /\ index < total
    /\ index' = index + 1
    /\ pc' = "check"
    /\ lastLog' = "Processing video:"
    /\ UNCHANGED <<nvars, info, BATCH_SIZE, videos, total, existing_path, segments,
                   fs, dirMade, sleeping, exc, fs0, snap, outcome, trace>>

\* line 182 exhausted, line 220.
LoopDone ==
    /\ pc = "loop"
    /\ index = total
    /\ pc' = "done"
    /\ lastLog' = "Done processing all videos."
    /\ UNCHANGED <<nvars, info, BATCH_SIZE, videos, total, index, existing_path,
                   segments, fs, dirMade, sleeping, exc, fs0, snap, outcome,
                   trace>>

CheckExisting_StaleListing ==
    /\ pc = "check"
    /\ existing_path' = build_transcript_filepath(videos[index], OUTPUT_DIR)
    /\ dirMade' = TRUE
    /\ snap' = Append(snap, fs)
    /\ trace' = trace \o <<Event("path", index), Event("exists", index)>>
    /\ IF existing_path' \in DOMAIN fs0
       THEN /\ pc' = "skip"
            /\ outcome' = SetOutcome("SKIPPED")
            /\ lastLog' = "Transcript already exists"
       ELSE /\ pc' = "fetch"
            /\ UNCHANGED <<outcome, lastLog>>
    /\ UNCHANGED <<nvars, info, BATCH_SIZE, videos, total, index, segments, fs,
                   sleeping, exc, fs0>>

CheckExisting_NoSkip ==
    /\ pc = "check"
    /\ existing_path' = build_transcript_filepath(videos[index], OUTPUT_DIR)
    /\ dirMade' = TRUE
    /\ snap' = Append(snap, fs)
    /\ trace' = trace \o <<Event("path", index), Event("exists", index)>>
    /\ pc' = "fetch"
    /\ UNCHANGED <<nvars, info, BATCH_SIZE, videos, total, index, segments, fs,
                   sleeping, lastLog, exc, fs0, outcome>>

\* lines 191-193: derive the path, test os.path.exists.
CheckExisting ==
    /\ pc = "check"
    /\ existing_path' = build_transcript_filepath(videos[index], OUTPUT_DIR)
    /\ dirMade' = TRUE
    /\ snap' = Append(snap, fs)
    /\ trace' = trace \o <<Event("path", index), Event("exists", index)>>
    /\ IF existing_path' \in DOMAIN fs
       THEN /\ pc' = "skip"
            /\ outcome' = SetOutcome("SKIPPED")
            /\ lastLog' = "Transcript already exists"
       ELSE /\ pc' = "fetch"
            /\ UNCHANGED <<outcome, lastLog>>
    /\ UNCHANGED <<nvars, info, BATCH_SIZE, videos, total, index, segments, fs,
                   sleeping, exc, fs0>>

SkipSleep_NoDelay ==
    /\ pc = "skip"
    /\ pc' = "loop"
    /\ UNCHANGED <<nvars, info, BATCH_SIZE, videos, total, index, existing_path,
                   segments, fs, dirMade, sleeping, lastLog, exc, fs0, snap,
                   outcome, trace>>

\* lines 195-197: the delay of a skipped video begins.
SkipSleep ==
    /\ pc = "skip"
    /\ \E delay \in Uniform(MIN_DELAY_SECONDS, MAX_DELAY_SECONDS) :
           sleeping' = delay
    /\ lastLog' = "Sleeping before next video..."
    /\ trace' = Log("delay")
    /\ pc' = "skip_sleeping"
    /\ UNCHANGED <<nvars, info, BATCH_SIZE, videos, total, index, existing_path,
                   segments, fs, dirMade, exc, fs0, snap, outcome>>

\* lines 197-198: time.sleep returns, continue.
SkipWake ==
    /\ pc = "skip_sleeping"
    /\ sleeping' = 0
    /\ pc' = "loop"
    /\ UNCHANGED <<nvars, info, BATCH_SIZE, videos, total, index, existing_path,
                   segments, fs, dirMade, lastLog, exc, fs0, snap, outcome,
                   trace>>

\* line 200, fetch_transcript_for_video (lines 82-110): both except clauses
\* return None; the provider may also hand back no snippets.
Fetch ==
    /\ pc = "fetch"
    /\ \E answer \in {"TranscriptUnavailable", "Exception", "empty", "snippets"} :
           CASE answer = "TranscriptUnavailable" ->
                    /\ segments' = None
                    /\ lastLog' = "Transcript not available"
             [] answer = "Exception" ->
                    /\ segments' = None
                    /\ lastLog' = "Unexpected error fetching transcript"
             [] answer = "empty" ->
                    /\ segments' = List(<<>>)
                    /\ lastLog' = "Got transcript snippets"
             [] answer = "snippets" ->
                    /\ segments' = List(RawData)
                    /\ lastLog' = "Got transcript snippets"
    /\ trace' = Log("fetch")
    /\ pc' = "decide"
    /\ UNCHANGED <<nvars, info, BATCH_SIZE, videos, total, index, existing_path, fs,
                   dirMade, sleeping, exc, fs0, snap, outcome>>

NoTranscript_Retry ==
    /\ pc = "decide"
    /\ NotSegments(segments)
    /\ lastLog' = "No transcript, skipping save."
    /\ IF Cardinality({k \in DOMAIN trace : trace[k] = Event("fetch", index)}) < 2
       THEN /\ pc' = "fetch"
            /\ UNCHANGED outcome
       ELSE /\ pc' = "sleep"
            /\ outcome' = SetOutcome("EMPTY")
    /\ UNCHANGED <<nvars, info, BATCH_SIZE, videos, total, index, existing_path,
                   segments, fs, dirMade, sleeping, exc, fs0, snap, trace>>

\* lines 202-203
NoTranscript ==
    /\ pc = "decide"
    /\ NotSegments(segments)
    /\ outcome' = SetOutcome("EMPTY")
    /\ lastLog' = "No transcript, skipping save."
    /\ pc' = "sleep"
    /\ UNCHANGED <<nvars, info, BATCH_SIZE, videos, total, index, existing_path,
                   segments, fs, dirMade, sleeping, exc, fs0, snap, trace>>

\* lines 204-205, save_transcript (lines 141-160): open(filepath, "w") and
\* json.dump; nothing catches what they raise.
Save ==
    /\ pc = "decide"
    /\ ~NotSegments(segments)
    /\ LET video    == videos[index]
           filepath == build_transcript_filepath(video, OUTPUT_DIR)
           data     == [video_id |-> DictGet(video, "id", <<>>),
                        title    |-> DictGet(video, "title", <<>>),
                        segments |-> segments.list]
       IN  \E result \in {"written", "open raises", "dump raises"} :
               CASE result = "written" ->
                        /\ fs' = (filepath :> data) @@ fs
                        /\ outcome' = SetOutcome("SAVED")
                        /\ lastLog' = "Saved transcript"
                        /\ pc' = "sleep"
                        /\ exc' = exc
                 [] result = "open raises" ->
                        /\ fs' = fs
                        /\ pc' = "crashed"
                        /\ exc' = "OSError"
                        /\ UNCHANGED <<outcome, lastLog>>
                 [] result = "dump raises" ->
                        /\ fs' = (filepath :> Truncated) @@ fs
                        /\ pc' = "crashed"
                        /\ exc' = "OSError"
                        /\ UNCHANGED <<outcome, lastLog>>
    /\ dirMade' = TRUE
    /\ trace' = Log("save")
    /\ UNCHANGED <<nvars, info, BATCH_SIZE, videos, total, index, existing_path,
                   segments, sleeping, fs0, snap>>

\* lines 208-210: the delay after a fetched video begins.
Sleep ==
    /\ pc = "sleep"
    /\ \E delay \in Uniform(MIN_DELAY_SECONDS, MAX_DELAY_SECONDS) :
           sleeping' = delay
    /\ lastLog' = "Sleeping..."
    /\ trace' = Log("delay")
    /\ pc' = "sleeping"
    /\ UNCHANGED <<nvars, info, BATCH_SIZE, videos, total, index, existing_path,
                   segments, fs, dirMade, exc, fs0, snap, outcome>>

Wake_RestAfterLast ==
    /\ pc = "sleeping"
    /\ IF index % BATCH_SIZE = 0
       THEN /\ sleeping' = BATCH_REST_SECONDS
            /\ lastLog' = "taking a long rest"
            /\ trace' = Log("rest")
            /\ pc' = "resting"
       ELSE /\ sleeping' = 0
            /\ pc' = "loop"
            /\ UNCHANGED <<lastLog, trace>>
    /\ UNCHANGED <<nvars, info, BATCH_SIZE, videos, total, index, existing_path,
                   segments, fs, dirMade, exc, fs0, snap, outcome>>

\* lines 210-218: time.sleep returns; the long rest begins after a full batch
\* unless this was the last video.
Wake ==
    /\ pc = "sleeping"
    /\ IF index % BATCH_SIZE = 0 /\ index < total
       THEN /\ sleeping' = BATCH_REST_SECONDS
            /\ lastLog' = "taking a long rest"
            /\ trace' = Log("rest")
            /\ pc' = "resting"
       ELSE /\ sleeping' = 0
            /\ pc' = "loop"
            /\ UNCHANGED <<lastLog, trace>>
    /\ UNCHANGED <<nvars, info, BATCH_SIZE, videos, total, index, existing_path,
                   segments, fs, dirMade, exc, fs0, snap, outcome>>

\* line 218: the long rest ends.
RestWake ==
    /\ pc = "resting"
    /\ sleeping' = 0
    /\ pc' = "loop"
    /\ UNCHANGED <<nvars, info, BATCH_SIZE, videos, total, index, existing_path,
                   segments, fs, dirMade, lastLog, exc, fs0, snap, outcome,
                   trace>>

Next ==
    \/ EnumerateFails
    \/ EnumerateReturns
    \/ LoopNext
    \/ LoopDone
    \/ CheckExisting
    \/ SkipSleep
    \/ SkipWake
    \/ Fetch
    \/ NoTranscript
    \/ Save
    \/ Sleep
    \/ Wake
    \/ RestWake

Spec == Init /\ [][Next]_vars

\* ------------------------------------------------------------------------
\* Vocabulary of the properties
\* ------------------------------------------------------------------------

\* The videos the Enumerator can return.
EnumVideos ==
    {get_videos_from_playlist(e)[1] : e \in {r \in RawEntries : "id" \in DOMAIN r}}

\* The path main derives for each of them.
PathTable == [v \in EnumVideos |-> build_transcript_filepath(v, OUTPUT_DIR)]

\* The path main derives for the item at position i.
PathOf(i) == PathTable[videos[i]]

\* The contents of path p in file system f.
Content(f, p) == IF p \in DOMAIN f THEN f[p] ELSE [absent |-> TRUE]

\* How often op was called for item i.
Count(op, i) == Cardinality({k \in DOMAIN trace : trace[k] = Event(op, i)})

\* os.path.exists has been evaluated for item i.
Reached(i) == i <= Len(snap)

\* The file of item i existed when the driver reached it.
ExistedAtCheck(i) == Reached(i) /\ PathOf(i) \in DOMAIN snap[i]

\* The loop body of item i has run to its end.
Finished(i) == i < index \/ (i = index /\ pc \in {"loop", "done"})

\* The run is over.
Ended == pc \in {"done", "returned", "crashed"}

Items == 1..total

\* The calls made for item i other than the long rest, in order.
OpsOf(i) ==
    LET mine == SelectSeq(trace, LAMBDA e : e.i = i /\ e.op # "rest")
    IN  [k \in 1..Len(mine) |-> mine[k].op]

IsPrefix(s, t) == Len(s) <= Len(t) /\ s = SubSeq(t, 1, Len(s))

SkippedOps == <<"path", "exists", "delay">>

EmptyOps == <<"path", "exists", "fetch", "delay">>

SavedOps == <<"path", "exists", "fetch", "save", "delay">>

\* ------------------------------------------------------------------------
\* C1: idempotent resume
\* ------------------------------------------------------------------------

\* C1 as stated: for every item whose file exists when the driver reaches it,
\* the run calls neither the Fetcher nor the Persister for it, and at the end
\* of the run the file's contents are what they were before the run.
C1_ResumeSameAsBeforeRun ==
    \A i \in Items :
        ExistedAtCheck(i) =>
            /\ Count("fetch", i) = 0
            /\ Count("save", i) = 0
            /\ pc = "done" => Content(fs, PathOf(i)) = Content(fs0, PathOf(i))

\* C1 amended: for every item whose file exists when the driver reaches it,
\* the run calls neither the Fetcher nor the Persister for it, the item is
\* SKIPPED, and from then on the file's contents are what they were when the
\* driver reached the item; they are what they were before the run whenever
\* the file existed before the run.
C1_ResumeSameAsWhenReached ==
    \A i \in Items :
        ExistedAtCheck(i) =>
            /\ Count("fetch", i) = 0
            /\ Count("save", i) = 0
            /\ outcome[i] = "SKIPPED"
            /\ Content(fs, PathOf(i)) = snap[i][PathOf(i)]
            /\ PathOf(i) \in DOMAIN fs0 => fs[PathOf(i)] = fs0[PathOf(i)]

\* A finished run that skipped an item whose file an earlier run left, and
\* skipped another whose file an earlier item of this run wrote.
C1_Witness ==
    /\ pc = "done"
    /\ \E i \in Items : ExistedAtCheck(i) /\ PathOf(i) \in DOMAIN fs0
    /\ \E i \in Items : ExistedAtCheck(i) /\ PathOf(i) \notin DOMAIN fs0

\* ------------------------------------------------------------------------
\* C2: long-rest trigger
\* ------------------------------------------------------------------------

\* C2 as stated: a long rest is taken after the item at position i exactly
\* when i is a multiple of the batch size and i is not the last position,
\* whatever the item's outcome; a finished run of n items has taken
\* floor((n-1)/B) long rests.
C2_LongRestTrigger ==
    /\ \A i \in Items :
           Finished(i) =>
               (Count("rest", i) = 1 <=> (i % BATCH_SIZE = 0 /\ i < total))
    /\ pc = "done" =>
           Cardinality({k \in DOMAIN trace : trace[k].op = "rest"})
               = (total - 1) \div BATCH_SIZE

\* ------------------------------------------------------------------------
\* C3: per-item error containment
\* ------------------------------------------------------------------------

\* C3 as stated: once the Enumerator has returned, no error of an item's
\* fetch or persist step ends the run; only the Enumerator's failure does.
C3_ErrorContainment ==
    pc = "crashed" => (info = Unresolvable /\ trace = <<Event("enumerate", 0)>>)

\* ------------------------------------------------------------------------
\* C4: skip on empty
\* ------------------------------------------------------------------------

\* The Persister has only been called with a non-empty list of segments.
SavedOnlyNonEmpty ==
    (trace # <<>> /\ trace[Len(trace)].op = "save") =>
        ("list" \in DOMAIN segments /\ segments.list # <<>>)

\* C4 as stated: an item whose file did not exist and whose fetch gave None or
\* no segments is not handed to the Persister and has no output file at the
\* end of the run; the Persister is only called with a non-empty list.
C4_NoFileAtEndOfRun ==
    /\ \A i \in Items :
           outcome[i] = "EMPTY" =>
               /\ Count("save", i) = 0
               /\ pc = "done" => PathOf(i) \notin DOMAIN fs
    /\ SavedOnlyNonEmpty

\* C4 amended: such an item is not handed to the Persister and its own step
\* creates no file: the file is still absent when the driver leaves the item,
\* and absent at the end of the run unless another item of the run derives the
\* same path; the Persister is only called with a non-empty list.
C4_NoFileFromEmptyItem ==
    /\ \A i \in Items :
           outcome[i] = "EMPTY" =>
               /\ ~ExistedAtCheck(i)
               /\ Count("fetch", i) = 1
               /\ Count("save", i) = 0
               /\ i = index => PathOf(i) \notin DOMAIN fs
               /\ (\A j \in Items : j # i => PathOf(j) # PathOf(i))
                      => PathOf(i) \notin DOMAIN fs
    /\ SavedOnlyNonEmpty

\* A finished run with an item whose fetch gave an empty list and an item
\* whose fetch gave None, neither of which has a file.
C4_Witness ==
    /\ pc = "done"
    /\ \E i, j \in Items :
           /\ i < j
           /\ outcome[i] = "EMPTY" /\ outcome[j] = "EMPTY"
           /\ PathOf(i) \notin DOMAIN fs /\ PathOf(j) \notin DOMAIN fs
    /\ segments = None

\* ------------------------------------------------------------------------
\* C5: failure of the Enumerator
\* ------------------------------------------------------------------------

\* Nothing was fetched, saved, created or slept.
NothingProcessed ==
    /\ \A k \in DOMAIN trace : trace[k].op = "enumerate"
    /\ videos = <<>>
    /\ index = 0
    /\ fs = fs0
    /\ dirMade = (DOMAIN fs0 # {})
    /\ sleeping = 0

OtherVideos ==
    {[id |-> i, title |-> t] :
        i \in Ids \ {<<>>}, t \in SeqsUpTo({"a", "_"}, MaxTitleLen)}

OtherPath ==
    [d \in OutputDirs |->
        [o \in OtherVideos |-> build_transcript_filepath(o, d)]]

\* s ends with t
EndsWith(s, t) ==
    Len(t) <= Len(s) /\ SubSeq(s, Len(s) - Len(t) + 1, Len(s)) = t

\* The item of the state has a non-empty identifier and its path is built.
HasId == nCalls > 0 /\ "id" \in DOMAIN nVideo /\ nVideo.id # <<>>

\* The path holds the identifier as it is, between "__" and ".json".
IdVerbatim == EndsWith(nPath, Separator \o nVideo.id \o Extension)

\* C6 as stated: the paths of two items with distinct non-empty identifiers
\* differ, whatever their display names, and the identifier is in the path
\* verbatim.
C6_PathsDiffer ==
    HasId =>
        /\ \A o \in OtherVideos : o.id # nVideo.id => OtherPath[nDir][o] # nPath
        /\ IdVerbatim

\* C6 amended: the paths of two items with distinct identifiers of the same
\* length differ, whatever their display names, and the identifier is in the
\* path verbatim (identifiers of different lengths can give one path: title
\* "a_" with id "b", and title "a" with id "_b").
C6_PathsDifferSameLength ==
    HasId =>
        /\ \A o \in OtherVideos :
               (o.id # nVideo.id /\ Len(o.id) = Len(nVideo.id))
                   => OtherPath[nDir][o] # nPath
        /\ IdVerbatim

\* An item whose title sanitizes to the title of another item with a different
\* identifier of the same length.
C6_Witness ==
    /\ HasId
    /\ nDir = OUTPUT_DIR
    /\ nVideo.id = <<"b", "_">>
    /\ "title" \in DOMAIN nVideo
    /\ nVideo.title = <<"a", "/">>
    /\ [id |-> <<"_", "b">>, title |-> <<"a", "_">>] \in OtherVideos
    /\ sanitize_filename(nVideo.title) = <<"a", "_">>

\* ------------------------------------------------------------------------
\* C8: name derivation
\* ------------------------------------------------------------------------

Reserved == {"<", ">", ":", "\"", "/", "\\", "|", "?", "*"}

\* The name component as the algorithm is stated: map the reserved characters
\* to "_", keep what lies between the first and the last non-whitespace
\* character, keep at most the first NameLimit characters of that, and take
\* "untitled" when nothing is left.
StatedName(title) ==
    LET mapped  == [k \in 1..Len(title) |->
                       IF title[k] \in Reserved THEN "_" ELSE title[k]]
        solid   == {k \in 1..Len(title) : mapped[k] \notin Whitespace}
        first   == CHOOSE k \in solid : \A l \in solid : k <= l
        last    == CHOOSE k \in solid : \A l \in solid : l <= k
        trimmed == IF solid = {} THEN <<>> ELSE SubSeq(mapped, first, last)
        kept    == [k \in 1..(IF Len(trimmed) < NameLimit
                              THEN Len(trimmed) ELSE NameLimit) |-> trimmed[k]]
    IN  IF kept = <<>> THEN untitled ELSE kept

\* The stated file name joined to the directory.
StatedPath(title, id, dir) ==
    LET file == StatedName(title) \o <<"_", "_">> \o id
                    \o <<".", "j", "s", "o", "n">>
    IN  IF dir = <<>> \/ dir[Len(dir)] = "/"
        THEN dir \o file
        ELSE dir \o <<"/">> \o file

\* C8: for every display name, identifier and directory, the path returned is
\* the directory joined with S ++ "__" ++ identifier ++ ".json", S being the
\* stated name component; a second call with the same arguments returns it
\* again.
C8_NameDerivation ==
    nCalls > 0 =>
        nPath = StatedPath(DictGet(nVideo, "title", <<>>),
                           DictGet(nVideo, "id", <<>>), nDir)

\* A title that begins with whitespace, holds a reserved character and is
\* still longer than the limit once trimmed, derived twice.
C8_Witness ==
    /\ nCalls = 2
    /\ "title" \in DOMAIN nVideo
    /\ nVideo.title # <<>>
    /\ nVideo.title[1] \in Whitespace
    /\ \E k \in DOMAIN nVideo.title : nVideo.title[k] \in Reserved
    /\ Len(Strip(nVideo.title)) > NameLimit
    /\ Len(nPath) = Len(StatedPath(<<"a">>, nVideo.id, nDir)) + NameLimit - 1

\* ------------------------------------------------------------------------
\* C7: inter-item delay
\* ------------------------------------------------------------------------

\* C7: every finished item has taken exactly one inter-item delay, after its
\* outcome was decided and as the last of its calls, and no item more than one;
\* a finished run of n items has taken n; each delay is within
\* [MIN_DELAY_SECONDS, MAX_DELAY_SECONDS]; a long rest directly follows the
\* delay of the same item.
C7_InterItemDelay ==
    /\ \A i \in Items :
           LET ops    == OpsOf(i)
               delays == Cardinality({k \in DOMAIN ops : ops[k] = "delay"})
           IN  /\ delays <= 1
               /\ Finished(i) => delays = 1
               /\ delays = 1 =>
                      /\ outcome[i] \in {"SKIPPED", "EMPTY", "SAVED"}
                      /\ ops[Len(ops)] = "delay"
    /\ pc = "done" =>
           Cardinality({k \in DOMAIN trace : trace[k].op = "delay"}) = total
    /\ pc \in {"sleeping", "skip_sleeping"} =>
           (MIN_DELAY_SECONDS <= sleeping /\ sleeping <= MAX_DELAY_SECONDS)
    /\ \A k \in DOMAIN trace :
           trace[k].op = "rest" =>
               (k > 1 /\ trace[k - 1] = Event("delay", trace[k].i))

\* A finished run whose last item was skipped and in which a long rest was
\* taken.
C7_Witness ==
    /\ pc = "done"
    /\ total >= 2
    /\ outcome[total] = "SKIPPED"
    /\ \E k \in DOMAIN trace : trace[k].op = "rest"

\* ------------------------------------------------------------------------
\* C9: per-item ordering
\* ------------------------------------------------------------------------

\* C9: the Enumerator is called once, first; the calls of item i all precede
\* those of item i+1; each item's calls are, in this order, path derivation,
\* existence check, at most one Fetcher call, at most one Persister call (only
\* after the Fetcher call), delay; every finished item has exactly one of the
\* outcomes SKIPPED, EMPTY, SAVED, the one its calls show.
C9_PerItemOrdering ==
    /\ trace # <<>> => trace[1] = Event("enumerate", 0)
    /\ Count("enumerate", 0) <= 1
    /\ \A k \in 1..(Len(trace) - 1) : trace[k].i <= trace[k + 1].i
    /\ \A k \in DOMAIN trace : trace[k].i <= index
    /\ \A i \in Items :
           /\ \/ IsPrefix(OpsOf(i), SkippedOps)
              \/ IsPrefix(OpsOf(i), EmptyOps)
              \/ IsPrefix(OpsOf(i), SavedOps)
           /\ Finished(i) =>
                  \/ outcome[i] = "SKIPPED" /\ OpsOf(i) = SkippedOps
                  \/ outcome[i] = "EMPTY" /\ OpsOf(i) = EmptyOps
                  \/ outcome[i] = "SAVED" /\ OpsOf(i) = SavedOps
           /\ i > index => (outcome[i] = "PENDING" /\ OpsOf(i) = <<>>)

\* A finished run of three items with the three outcomes.
C9_Witness ==
    /\ pc = "done"
    /\ \E i, j, k \in Items :
           outcome[i] = "SKIPPED" /\ outcome[j] = "EMPTY" /\ outcome[k] = "SAVED"

\* ------------------------------------------------------------------------
\* C10: write-once output
\* ------------------------------------------------------------------------

\* Every Persister call was for a path with no file at the item's existence
\* check, and no two Persister calls were for the same path.
SavedOnlyWhereAbsent ==
    \A i \in Items :
        Count("save", i) > 0 =>
            /\ ~ExistedAtCheck(i)
            /\ Count("save", i) = 1
            /\ \A j \in Items :
                   (j # i /\ Count("save", j) > 0) => PathOf(j) # PathOf(i)

\* A step leaves every existing file as it is.
FilesKept == \A p \in DOMAIN fs : p \in DOMAIN fs' /\ fs'[p] = fs[p]

\* C10: the driver never calls the Persister on a path where a file existed at
\* the item's existence check, every path is written at most once in a run,
\* and a file that exists is never changed or removed.
C10_WriteOnce == []SavedOnlyWhereAbsent /\ [][FilesKept]_vars

\* A finished run over two items with the same path: the first wrote the
\* file, the second was skipped.
C10_Witness ==
    /\ pc = "done"
    /\ \E i, j \in Items :
           /\ i < j
           /\ videos[i] # videos[j]
           /\ PathOf(i) = PathOf(j)
           /\ outcome[i] = "SAVED"
           /\ outcome[j] = "SKIPPED"

====
